---- MODULE Spec2Model ----
(***************************************************************************)
(* Model of src/watcher.py: the single-run internship watcher.  One run    *)
(* loads seen.json, fetches pages 1..MAX_PAGES, collects the records whose *)
(* identifier is not yet seen, e-mails each of them and finally rewrites   *)
(* seen.json.  Runs follow each other on the same seen.json; a run can be  *)
(* killed between any two steps.  FnSpec calls the helpers on their own,   *)
(* ConcSpec runs two processes of main on the same seen.json.              *)
(***************************************************************************)
EXTENDS Integers, Sequences, FiniteSets, TLC

(***************************************************************************)
(* Decoded JSON values (what requests' r.json() returns).  A dict keeps    *)
(* its entries in insertion order, as Python does.                         *)
(***************************************************************************)
JNull == [ty |-> "null"]
JStr(s) == [ty |-> "str", s |-> s]
JInt(n) == [ty |-> "int", n |-> n]
JList(xs) == [ty |-> "list", xs |-> xs]
JDict(es) == [ty |-> "dict", es |-> es]

\* isinstance(v, dict) / isinstance(v, list)
IsDict(v) == v.ty = "dict"
IsList(v) == v.ty = "list"

\* k in d
HasKey(d, k) == \E j \in 1..Len(d.es) : d.es[j][1] = k

\* d[k] for a key that is present
Item(d, k) == d.es[CHOOSE j \in 1..Len(d.es) : d.es[j][1] = k][2]

\* d.get(k): the value, or None
Get(d, k) == IF HasKey(d, k) THEN Item(d, k) ELSE JNull

\* Python truthiness of a decoded JSON value
Truthy(v) ==
    CASE v.ty = "null" -> FALSE
      [] v.ty = "str"  -> v.s # ""
      [] v.ty = "int"  -> v.n # 0
      [] v.ty = "list" -> v.xs # <<>>
      [] v.ty = "dict" -> v.es # <<>>

\* repr(v) and str(v) of a decoded JSON value
RECURSIVE PyRepr(_)
RECURSIVE ReprList(_)
RECURSIVE ReprEntries(_)
ReprList(xs) ==
    IF xs = <<>> THEN ""
    ELSE IF Len(xs) = 1 THEN PyRepr(xs[1])
    ELSE PyRepr(xs[1]) \o ", " \o ReprList(Tail(xs))
ReprEntries(es) ==
    IF es = <<>> THEN ""
    ELSE IF Len(es) = 1 THEN "'" \o es[1][1] \o "': " \o PyRepr(es[1][2])
    ELSE "'" \o es[1][1] \o "': " \o PyRepr(es[1][2]) \o ", " \o ReprEntries(Tail(es))
PyRepr(v) ==
    CASE v.ty = "null" -> "None"
      [] v.ty = "str"  -> "'" \o v.s \o "'"
      [] v.ty = "int"  -> ToString(v.n)
      [] v.ty = "list" -> "[" \o ReprList(v.xs) \o "]"
      [] v.ty = "dict" -> "{" \o ReprEntries(v.es) \o "}"
PyStr(v) == IF v.ty = "str" THEN v.s ELSE PyRepr(v)

\* a or b or ... or dflt over item.get(k) for the keys ks, in order
RECURSIVE FirstTruthy(_, _, _)
FirstTruthy(item, ks, dflt) ==
    IF ks = <<>> THEN dflt
    ELSE IF Truthy(Get(item, ks[1])) THEN Get(item, ks[1])
    ELSE FirstTruthy(item, Tail(ks), dflt)

\* hashlib.sha1(s.encode("utf-8")).hexdigest(), idealised as collision free
Sha1Hex(s) == "sha1:" \o s

(***************************************************************************)
(* make_id.  The result is [ok |-> TRUE, id |-> identifier], or            *)
(* [ok |-> FALSE, exc |-> exception] when the Python code raises.          *)
(***************************************************************************)
IdKeys == <<"id", "_id", "internship_id">>
TitleKeys == <<"title", "name", "position">>
IdLinkKeys == <<"link", "url", "slug">>

RECURSIVE ExplicitId(_, _)
ExplicitId(item, ks) ==
    IF ks = <<>> THEN JNull
    ELSE IF IsDict(item) /\ HasKey(item, ks[1]) /\ Truthy(Item(item, ks[1]))
         THEN Item(item, ks[1])
    ELSE ExplicitId(item, Tail(ks))

make_id(item) ==
    LET explicit == ExplicitId(item, IdKeys)
        title == FirstTruthy(item, TitleKeys, JStr(""))
        link == FirstTruthy(item, IdLinkKeys, JStr(""))
    IN  IF explicit # JNull THEN [ok |-> TRUE, id |-> PyStr(explicit)]
        ELSE IF ~IsDict(item) THEN [ok |-> FALSE, exc |-> "AttributeError"]
        ELSE IF title.ty # "str" THEN [ok |-> FALSE, exc |-> "TypeError"]
        ELSE [ok |-> TRUE, id |-> Sha1Hex(title.s \o "|" \o PyStr(link))]

\* infer_title: first non-empty title-like field, else "Internship"
infer_title(item) == FirstTruthy(item, TitleKeys, JStr("Internship"))

(***************************************************************************)
(* infer_link.  urljoin(base, slug) raises TypeError for a slug that is    *)
(* not a string; for the relative slugs of this model it is base/slug.     *)
(***************************************************************************)
LinkKeys == <<"url", "link", "job_url", "application_url">>
SlugKeys == <<"slug", "path">>
SiteRoot == "https://vtu.internyet.in"

infer_link(item) ==
    LET direct == FirstTruthy(item, LinkKeys, JNull)
        slug == FirstTruthy(item, SlugKeys, JNull)
    IN  IF direct # JNull THEN [ok |-> TRUE, link |-> direct]
        ELSE IF slug = JNull
             THEN [ok |-> TRUE, link |-> JStr(SiteRoot \o "/internships")]
        ELSE IF slug.ty # "str" THEN [ok |-> FALSE, exc |-> "TypeError"]
        ELSE [ok |-> TRUE, link |-> JStr(SiteRoot \o "/" \o slug.s)]

(***************************************************************************)
(* extract_items_from_response: the ordered fallback chain.                *)
(***************************************************************************)
RECURSIVE FirstListValueLast(_)
FirstListValueLast(es) ==
    IF es = <<>> THEN <<>>
    ELSE IF IsList(es[Len(es)][2]) THEN es[Len(es)][2].xs
    ELSE FirstListValueLast(SubSeq(es, 1, Len(es) - 1))

RECURSIVE FirstListValue(_)
FirstListValue(es) ==
    IF es = <<>> THEN <<>>
    ELSE IF IsList(es[1][2]) THEN es[1][2].xs
    ELSE FirstListValue(Tail(es))

extract_items_from_response(resp) ==
    IF resp = JNull THEN <<>>
    ELSE IF IsDict(resp) THEN
        IF IsList(Get(resp, "data")) THEN Get(resp, "data").xs
        ELSE IF IsDict(Get(resp, "data")) /\ IsList(Get(Get(resp, "data"), "data"))
             THEN Get(Get(resp, "data"), "data").xs
        ELSE IF HasKey(resp, "internships") /\ IsList(Item(resp, "internships"))
             THEN Item(resp, "internships").xs
        ELSE FirstListValue(resp.es)
    ELSE IF IsList(resp) THEN resp.xs
    ELSE <<>>

(***************************************************************************)
(* The listing records and the upstream page sequences of the model.       *)
(***************************************************************************)
RecA1 == JDict(<< <<"id", JStr("A1")>>, <<"title", JStr("T1")>>, <<"url", JStr("u1")>> >>)
RecA2 == JDict(<< <<"id", JStr("")>>, <<"_id", JStr("A2")>>, <<"name", JStr("T2")>> >>)
RecA1b == JDict(<< <<"internship_id", JStr("A1")>>, <<"title", JStr("T1 again")>> >>)
RecH3 == JDict(<< <<"title", JStr("T3")>>, <<"link", JStr("L3")>> >>)
RecN7 == JDict(<< <<"id", JInt(7)>>, <<"slug", JStr("s7")>> >>)
RecBadTitle == JDict(<< <<"title", JInt(5)>> >>)
RecBadSlug == JDict(<< <<"id", JStr("B9")>>, <<"slug", JInt(9)>> >>)

Upstreams ==
    { \* two records, then an empty page
      << JDict(<< <<"data", JList(<<RecA1, RecA2>>)>> >>),
         JDict(<< <<"data", JList(<<>>)>> >>) >>,
      \* nested data, then "internships" with a repeated identifier, then null
      << JDict(<< <<"data", JDict(<< <<"data", JList(<<RecA1, RecH3>>)>> >>)>> >>),
         JDict(<< <<"internships", JList(<<RecA1b, RecN7, RecN7>>)>> >>),
         JNull >>,
      \* more non-empty pages than MAX_PAGES
      << JList(<<RecA1>>), JList(<<RecA1b>>), JList(<<RecA2>>),
         JList(<<RecA2>>), JList(<<RecA1>>), JList(<<RecH3>>) >>,
      \* the first list found holds strings, not records
      << JDict(<< <<"count", JInt(1)>>, <<"tags", JList(<<JStr("x")>>)>> >>) >>,
      \* a record whose slug is a number
      << JDict(<< <<"data", JList(<<RecA1, RecBadSlug, RecA2>>)>> >>) >>,
      \* a record whose title is a number, on the second page
      << JList(<<RecA2>>), JList(<<RecBadTitle>>) >>,
      \* a mapping without any list
      << JDict(<< <<"count", JInt(0)>> >>), JList(<<RecA1>>) >> }

\* identifiers in Python's string order, as sorted() orders them
UidOrder == <<"7", "A1", "A2", "B9", "Z0", "sha1:T3|L3">>
Rank(u) == CHOOSE j \in 1..Len(UidOrder) : UidOrder[j] = u
Range(s) == {s[j] : j \in 1..Len(s)}

RECURSIVE SortedListDescending(_)
SortedListDescending(S) ==
    IF S = {} THEN <<>>
    ELSE LET m == CHOOSE x \in S : \A y \in S : Rank(x) >= Rank(y)
         IN  <<m>> \o SortedListDescending(S \ {m})

RECURSIVE SortedList(_)
SortedList(S) ==
    IF S = {} THEN <<>>
    ELSE LET m == CHOOSE x \in S : \A y \in S : Rank(x) <= Rank(y)
         IN  <<m>> \o SortedList(S \ {m})

\* seen.json: absent, a JSON array of strings, or a truncated/partial file
NoFile == [st |-> "absent", data |-> <<>>]
JsonFile(S) == [st |-> "ok", data |-> SortedList(S)]
PartialFile == [st |-> "partial", data |-> <<>>]
InitialFiles == {NoFile, JsonFile({"Z0", "A2"})}

\* the identifiers a readable seen.json holds
DiskIds(f) == IF f.st = "ok" THEN Range(f.data) ELSE {}

MAX_PAGES == 5
MaxRuns == 2

VARIABLES
    upstream,       \* the page responses the API serves, page 1 first
    configured,     \* SMTP_USER, SMTP_PASS and EMAIL_TO are all set
    disk,           \* seen.json
    run,            \* number of runs started so far
    pc,             \* "idle", "fetch", "notify", "save", "writing", "done", "raised", "killed"
    exc,            \* the uncaught exception that ended the run, or ""
    seen,           \* main's seen
    loaded,         \* what load_seen returned in the latest run
    newly_seen,     \* main's newly_seen: <<uid, item>> pairs
    page,           \* the loop variable of the page loop
    total_fetched,  \* main's total_fetched
    idx,            \* position of the e-mail loop in newly_seen
    summary,        \* the "Fetched .. items; new found: .." line, once printed
    fetched,        \* the pages requested in this run, in order
    failed,         \* the last request of this run raised
    emails,         \* every send_email_plain call so far, over all runs
    doneRuns,       \* the runs that reached the end of main
    killedRuns,     \* the runs that were killed
    persists,       \* the rewrites of seen.json this run has completed
    prev,           \* how the run before this one ended
    arg,            \* the argument of a helper called on its own
    out,            \* what that helper returned
    insts,          \* the processes of main that share seen.json
    flen,           \* the length of seen.json in characters
    writers,        \* the processes that wrote seen.json, in the order they did
    overlap         \* a process started while another one was running

vars == <<upstream, configured, disk, run, pc, exc, seen, loaded, newly_seen,
          page, total_fetched, idx, summary, fetched, failed, emails, doneRuns,
          killedRuns, persists, prev, arg, out, insts, flen, writers, overlap>>

conc == <<insts, flen, writers, overlap>>
config == <<upstream, configured, arg, out, conc>>
memory == <<seen, loaded, newly_seen, page, total_fetched, idx, summary, fetched,
            failed>>
history == <<emails, doneRuns, killedRuns, prev>>
process == <<run, pc, exc, memory, history, persists>>

\* the pages of this run whose request returned a response
OkPages == IF failed THEN Len(fetched) - 1 ELSE Len(fetched)
NoRun == [completed |-> FALSE, okPages |-> 0, ids |-> {}]

\* no helper is called on its own
NoArg == [kind |-> "none"]
NoOut == [fn |-> "none"]

\* two processes of main that have not started
Instances == {1, 2}
IdleInst == [pc |-> "idle", exc |-> "", seen |-> {}, loaded |-> {},
             newly_seen |-> <<>>, page |-> 1, idx |-> 1]
Single ==
    /\ insts = [i \in Instances |-> IdleInst]
    /\ flen = 0
    /\ writers = <<>>
    /\ overlap = FALSE

\* no run has started yet
Fresh ==
    /\ run = 0
    /\ pc = "idle"
    /\ exc = ""
    /\ seen = {}
    /\ loaded = {}
    /\ newly_seen = <<>>
    /\ page = 1
    /\ total_fetched = 0
    /\ idx = 1
    /\ summary = <<>>
    /\ fetched = <<>>
    /\ failed = FALSE
    /\ emails = <<>>
    /\ doneRuns = {}
    /\ killedRuns = {}
    /\ persists = 0
    /\ prev = NoRun

Init ==
    /\ upstream \in Upstreams
    /\ configured \in BOOLEAN
    /\ disk \in InitialFiles
    /\ Fresh
    /\ arg = NoArg
    /\ out = NoOut
    /\ Single

(***************************************************************************)
(* load_seen / save_seen                                                   *)
(***************************************************************************)
\* load_seen: set() without a file, set(json.load(f)) otherwise; json.load
\* raises on a file that is not complete JSON
load_seen_ignoring_file(f) == [ok |-> TRUE, set |-> {}]

load_seen(f) ==
    IF f.st = "absent" THEN [ok |-> TRUE, set |-> {}]
    ELSE IF f.st = "ok" THEN [ok |-> TRUE, set |-> Range(f.data)]
    ELSE [ok |-> FALSE, exc |-> "JSONDecodeError"]

save_seen_new_only(seen_set) == JsonFile(seen_set \ loaded)

\* save_seen writes json.dump(sorted(list(seen_set))) into the file it opened
save_seen(seen_set) == JsonFile(seen_set)

\* fetch_page(page) when the request succeeds; past the last page the API
\* serves an empty data list
EmptyPage == JDict(<< <<"data", JList(<<>>)>> >>)
fetch_page(p) == IF p <= Len(upstream) THEN upstream[p] ELSE EmptyPage

(***************************************************************************)
(* The body of the page loop for one page's items (lines 150-154): the     *)
(* state after the items, or the exception make_id raised on the way.      *)
(***************************************************************************)
RECURSIVE ScanItemsWithoutAdd(_, _, _)
ScanItemsWithoutAdd(items, seenSet, newly) ==
    IF items = <<>> THEN [exc |-> "", seen |-> seenSet, newly |-> newly]
    ELSE LET uid == make_id(items[1])
         IN  IF ~uid.ok THEN [exc |-> uid.exc, seen |-> seenSet, newly |-> newly]
             ELSE IF uid.id \notin seenSet
                  THEN ScanItemsWithoutAdd(Tail(items), seenSet,
                                           Append(newly, <<uid.id, items[1]>>))
             ELSE ScanItemsWithoutAdd(Tail(items), seenSet, newly)

RECURSIVE ScanItemsPrepending(_, _, _)
ScanItemsPrepending(items, seenSet, newly) ==
    IF items = <<>> THEN [exc |-> "", seen |-> seenSet, newly |-> newly]
    ELSE LET uid == make_id(items[1])
         IN  IF ~uid.ok THEN [exc |-> uid.exc, seen |-> seenSet, newly |-> newly]
             ELSE IF uid.id \notin seenSet
                  THEN ScanItemsPrepending(Tail(items), seenSet \cup {uid.id},
                                           <<<<uid.id, items[1]>>>> \o newly)
             ELSE ScanItemsPrepending(Tail(items), seenSet, newly)

RECURSIVE ScanItems(_, _, _)
ScanItems(items, seenSet, newly) ==
    IF items = <<>> THEN [exc |-> "", seen |-> seenSet, newly |-> newly]
    ELSE LET uid == make_id(items[1])
         IN  IF ~uid.ok THEN [exc |-> uid.exc, seen |-> seenSet, newly |-> newly]
             ELSE IF uid.id \notin seenSet
                  THEN ScanItems(Tail(items), seenSet \cup {uid.id},
                                 Append(newly, <<uid.id, items[1]>>))
             ELSE ScanItems(Tail(items), seenSet, newly)

\* a send_email_plain that tries to deliver whatever the configuration
SendOutcomesAlwaysSending == {"sent", "failed"}

\* what send_email_plain can do: return without sending when not configured,
\* deliver, or raise (caught by main)
SendOutcomes == IF configured THEN {"sent", "failed"} ELSE {"skipped"}

Running == pc \in {"fetch", "notify", "save", "writing"}

(***************************************************************************)
(* main                                                                    *)
(***************************************************************************)
\* lines 131-134: a new process starts and loads seen.json
Start ==
    /\ pc \in {"idle", "done", "raised", "killed"}
    /\ run < MaxRuns
    /\ run' = run + 1
    /\ LET l == load_seen(disk)
       IN  /\ pc' = IF l.ok THEN "fetch" ELSE "raised"
           /\ exc' = IF l.ok THEN "" ELSE l.exc
           /\ seen' = IF l.ok THEN l.set ELSE {}
           /\ loaded' = IF l.ok THEN l.set ELSE {}
    /\ newly_seen' = <<>>
    /\ page' = 1
    /\ total_fetched' = 0
    /\ idx' = 1
    /\ summary' = <<>>
    /\ fetched' = <<>>
    /\ failed' = FALSE
    /\ prev' = IF pc = "done"
               THEN [completed |-> TRUE, okPages |-> OkPages, ids |-> seen]
               ELSE NoRun
    /\ persists' = 0
    /\ UNCHANGED <<config, disk, emails, doneRuns, killedRuns>>

AfterLoopSkippingMail(total, newly) ==
    /\ summary' = <<total, Len(newly)>>
    /\ idx' = 1
    /\ pc' = "save"
    /\ exc' = ""

\* line 156 and the test of line 160: the page loop is over
AfterLoop(total, newly) ==
    /\ summary' = <<total, Len(newly)>>
    /\ idx' = 1
    /\ pc' = IF newly = <<>> THEN "save" ELSE "notify"
    /\ exc' = ""

\* a failed request that throws away what the earlier pages gave
FetchFailDiscarding ==
    /\ pc = "fetch"
    /\ fetched' = Append(fetched, page)
    /\ failed' = TRUE
    /\ seen' = loaded
    /\ newly_seen' = <<>>
    /\ total_fetched' = 0
    /\ AfterLoop(0, <<>>)
    /\ UNCHANGED <<config, persists, disk, run, loaded, page, history>>

\* a failed request after which no summary is printed
FetchFailWithoutSummary ==
    /\ pc = "fetch"
    /\ fetched' = Append(fetched, page)
    /\ failed' = TRUE
    /\ idx' = 1
    /\ pc' = IF newly_seen = <<>> THEN "save" ELSE "notify"
    /\ exc' = ""
    /\ UNCHANGED <<config, persists, disk, run, seen, loaded, newly_seen, page,
                   total_fetched, summary, history>>

\* lines 137-141: the request for the page fails; the loop breaks
FetchFail ==
    /\ pc = "fetch"
    /\ fetched' = Append(fetched, page)
    /\ failed' = TRUE
    /\ AfterLoop(total_fetched, newly_seen)
    /\ UNCHANGED <<config, persists, disk, run, seen, loaded, newly_seen, page,
                   total_fetched, history>>

\* a page loop that goes on to the next page after an empty one
FetchPageWithoutStop ==
    /\ pc = "fetch"
    /\ fetched' = Append(fetched, page)
    /\ LET items == extract_items_from_response(fetch_page(page))
           r == ScanItems(items, seen, newly_seen)
       IN  /\ total_fetched' = total_fetched + Len(items)
           /\ seen' = r.seen
           /\ newly_seen' = r.newly
           /\ IF r.exc # ""
              THEN /\ pc' = "raised"
                   /\ exc' = r.exc
                   /\ UNCHANGED <<page, idx, summary>>
              ELSE IF page = MAX_PAGES
              THEN /\ AfterLoop(total_fetched', r.newly)
                   /\ UNCHANGED page
              ELSE /\ page' = page + 1
                   /\ UNCHANGED <<pc, exc, idx, summary>>
    /\ UNCHANGED <<config, persists, disk, run, loaded, failed, history>>

\* a page loop that rewrites seen.json once for every identifier it adds
FetchPageSaving ==
    /\ pc = "fetch"
    /\ fetched' = Append(fetched, page)
    /\ LET items == extract_items_from_response(fetch_page(page))
           r == ScanItems(items, seen, newly_seen)
       IN  IF items = <<>>
           THEN /\ AfterLoop(total_fetched, newly_seen)
                /\ UNCHANGED <<seen, newly_seen, page, total_fetched>>
           ELSE /\ total_fetched' = total_fetched + Len(items)
                /\ seen' = r.seen
                /\ newly_seen' = r.newly
                /\ IF r.exc # ""
                   THEN /\ pc' = "raised"
                        /\ exc' = r.exc
                        /\ UNCHANGED <<page, idx, summary>>
                   ELSE IF page = MAX_PAGES
                   THEN /\ AfterLoop(total_fetched', r.newly)
                        /\ UNCHANGED page
                   ELSE /\ page' = page + 1
                        /\ UNCHANGED <<pc, exc, idx, summary>>
    /\ disk' = IF seen' # seen THEN save_seen(seen') ELSE disk
    /\ persists' = persists + Len(newly_seen') - Len(newly_seen)
    /\ UNCHANGED <<config, run, loaded, failed, history>>

\* lines 136-154: one iteration of the page loop with a response
FetchPage ==
    /\ pc = "fetch"
    /\ fetched' = Append(fetched, page)
    /\ LET items == extract_items_from_response(fetch_page(page))
           r == ScanItems(items, seen, newly_seen)
       IN  IF items = <<>>
           THEN /\ AfterLoop(total_fetched, newly_seen)
                /\ UNCHANGED <<seen, newly_seen, page, total_fetched>>
           ELSE /\ total_fetched' = total_fetched + Len(items)
                /\ seen' = r.seen
                /\ newly_seen' = r.newly
                /\ IF r.exc # ""
                   THEN /\ pc' = "raised"
                        /\ exc' = r.exc
                        /\ UNCHANGED <<page, idx, summary>>
                   ELSE IF page = MAX_PAGES
                   THEN /\ AfterLoop(total_fetched', r.newly)
                        /\ UNCHANGED page
                   ELSE /\ page' = page + 1
                        /\ UNCHANGED <<pc, exc, idx, summary>>
    /\ UNCHANGED <<config, persists, disk, run, loaded, failed, history>>

\* the e-mail loop of a program that rewrites seen.json before each e-mail
NotifyAfterPersist ==
    /\ pc = "notify"
    /\ disk' = save_seen(seen)
    /\ LET uid == newly_seen[idx][1]
           it == newly_seen[idx][2]
           title == infer_title(it)
           link == infer_link(it)
       IN  IF ~link.ok
           THEN /\ pc' = "raised"
                /\ exc' = link.exc
                /\ UNCHANGED <<idx, emails>>
           ELSE /\ \E o \in SendOutcomes :
                     emails' = Append(emails,
                                 [run |-> run, uid |-> uid, title |-> PyStr(title),
                                  outcome |-> o, durable |-> uid \in DiskIds(disk')])
                /\ idx' = idx + 1
                /\ pc' = IF idx = Len(newly_seen) THEN "save" ELSE "notify"
                /\ UNCHANGED exc
    /\ persists' = persists + 1
    /\ UNCHANGED <<config, run, seen, loaded, newly_seen, page,
                   total_fetched, summary, fetched, failed, doneRuns, killedRuns,
                   prev>>

\* an e-mail loop that takes the identifier out of seen when delivery fails
NotifyWithRollback ==
    /\ pc = "notify"
    /\ LET uid == newly_seen[idx][1]
           it == newly_seen[idx][2]
           title == infer_title(it)
           link == infer_link(it)
       IN  IF ~link.ok
           THEN /\ pc' = "raised"
                /\ exc' = link.exc
                /\ UNCHANGED <<idx, emails, seen>>
           ELSE /\ \E o \in SendOutcomes :
                     /\ emails' = Append(emails,
                                 [run |-> run, uid |-> uid, title |-> PyStr(title),
                                  outcome |-> o, durable |-> uid \in DiskIds(disk)])
                     /\ seen' = IF o = "failed" THEN seen \ {uid} ELSE seen
                /\ idx' = idx + 1
                /\ pc' = IF idx = Len(newly_seen) THEN "save" ELSE "notify"
                /\ UNCHANGED exc
    /\ UNCHANGED <<config, persists, disk, run, loaded, newly_seen, page,
                   total_fetched, summary, fetched, failed, doneRuns, killedRuns,
                   prev>>

\* lines 161-169: one iteration of the e-mail loop
Notify ==
    /\ pc = "notify"
    /\ LET uid == newly_seen[idx][1]
           it == newly_seen[idx][2]
           title == infer_title(it)
           link == infer_link(it)
       IN  IF ~link.ok
           THEN /\ pc' = "raised"
                /\ exc' = link.exc
                /\ UNCHANGED <<idx, emails>>
           ELSE /\ \E o \in SendOutcomes :
                     emails' = Append(emails,
                                 [run |-> run, uid |-> uid, title |-> PyStr(title),
                                  outcome |-> o, durable |-> uid \in DiskIds(disk)])
                /\ idx' = idx + 1
                /\ pc' = IF idx = Len(newly_seen) THEN "save" ELSE "notify"
                /\ UNCHANGED exc
    /\ UNCHANGED <<config, persists, run, seen, loaded, newly_seen, page,
                   total_fetched, summary, fetched, failed, doneRuns, killedRuns,
                   prev>>
    /\ UNCHANGED disk

\* line 34: open(SEEN_FILE, "w") truncates seen.json
SaveOpen ==
    /\ pc = "save"
    /\ disk' = PartialFile
    /\ pc' = "writing"
    /\ UNCHANGED <<config, persists, run, exc, memory, history>>

\* line 34: open(SEEN_FILE, "w") fails and save_seen raises
SaveOpenFail ==
    /\ pc = "save"
    /\ pc' = "raised"
    /\ exc' = "OSError"
    /\ UNCHANGED <<config, persists, disk, run, memory, history>>

\* a save that writes the set as it was loaded
SaveWriteLoaded ==
    /\ pc = "writing"
    /\ disk' = save_seen(loaded)
    /\ pc' = "done"
    /\ doneRuns' = doneRuns \cup {run}
    /\ persists' = persists + 1
    /\ UNCHANGED <<config, run, exc, memory, emails, killedRuns, prev>>

\* line 35 and the end of main: the array is written and the file closed
SaveWrite ==
    /\ pc = "writing"
    /\ disk' = save_seen(seen)
    /\ pc' = "done"
    /\ doneRuns' = doneRuns \cup {run}
    /\ persists' = persists + 1
    /\ UNCHANGED <<config, run, exc, memory, emails, killedRuns, prev>>

\* a failure reported only after the whole array reached the file
SaveWriteFailAfterWrite ==
    /\ pc = "writing"
    /\ disk' = save_seen(seen)
    /\ pc' = "raised"
    /\ exc' = "OSError"
    /\ persists' = persists + 1
    /\ UNCHANGED <<config, run, memory, history>>

\* line 35: the write fails and save_seen raises; the file stays partial
SaveWriteFail ==
    /\ pc = "writing"
    /\ pc' = "raised"
    /\ exc' = "OSError"
    /\ UNCHANGED <<config, persists, disk, run, memory, history>>

\* the process is killed between two steps; only seen.json and the e-mails
\* already sent remain
Kill ==
    /\ Running
    /\ pc' = "killed"
    /\ exc' = ""
    /\ seen' = {}
    /\ newly_seen' = <<>>
    /\ page' = 1
    /\ total_fetched' = 0
    /\ idx' = 1
    /\ summary' = <<>>
    /\ fetched' = <<>>
    /\ failed' = FALSE
    /\ killedRuns' = killedRuns \cup {run}
    /\ persists' = 0
    /\ UNCHANGED <<config, disk, run, loaded, emails, doneRuns, prev>>

Next ==
    \/ Start
    \/ FetchFail
    \/ FetchPage
    \/ Notify
    \/ SaveOpen
    \/ SaveOpenFail
    \/ SaveWrite
    \/ SaveWriteFail
    \/ Kill

Spec == Init /\ [][Next]_vars

\* requests.get has a timeout (line 93), so an iteration of the page loop
\* that has started also ends
LiveSpec == Spec /\ WF_vars(FetchFail \/ FetchPage)

(***************************************************************************)
(* The helpers called on their own: make_id on one record,                 *)
(* extract_items_from_response on one response, save_seen and load_seen on *)
(* one set of identifiers.                                                 *)
(***************************************************************************)
\* a key the record does not have
Absent == [ty |-> "absent"]
Entries(pairs) == SelectSeq(pairs, LAMBDA p : p[2] # Absent)

\* the records make_id is called on
ItemInputs ==
    { JDict(Entries(<< <<"id", a>>, <<"_id", b>>, <<"internship_id", c>>,
                       <<"title", t>>, <<"name", n>>, <<"link", l>>,
                       <<"slug", s>> >>)) :
        a \in {Absent, JStr(""), JStr("X"), JInt(7), JInt(0)},
        b \in {Absent, JStr("Y")},
        c \in {Absent, JStr("Z")},
        t \in {Absent, JStr(""), JStr("T"), JInt(5)},
        n \in {Absent, JStr("N")},
        l \in {Absent, JStr("L"), JInt(9)},
        s \in {Absent, JStr("s")} }

\* the decoded responses extract_items_from_response is called on
RespInputs ==
    {JNull, JStr("error"), JInt(3), JList(<<>>), JList(<<RecA1, RecA2>>)}
    \cup
    { JDict(Entries(IF flip
                    THEN << <<"items", t>>, <<"results", r>>, <<"data", d>>,
                            <<"internships", i>> >>
                    ELSE << <<"results", r>>, <<"items", t>>,
                            <<"internships", i>>, <<"data", d>> >>)) :
        d \in {Absent, JNull, JStr("x"), JList(<<>>), JList(<<RecA1, RecA2>>),
               JDict(<<>>), JDict(<< <<"data", JList(<<RecH3>>)>> >>),
               JDict(<< <<"data", JStr("x")>> >>)},
        i \in {Absent, JStr("x"), JList(<<RecN7>>)},
        r \in {Absent, JInt(1), JList(<<RecA1b>>)},
        t \in {Absent, JList(<<RecA2>>)},
        flip \in BOOLEAN }

\* the sets save_seen is called on
IdSetInputs == SUBSET Range(UidOrder)

FnInit ==
    /\ upstream = <<>>
    /\ configured = FALSE
    /\ disk \in InitialFiles
    /\ Fresh
    /\ \/ \E item \in ItemInputs : arg = [kind |-> "item", v |-> item]
       \/ \E resp \in RespInputs : arg = [kind |-> "resp", v |-> resp]
       \/ \E S \in IdSetInputs : arg = [kind |-> "ids", v |-> S]
    /\ out = NoOut
    /\ Single

CallMakeId ==
    /\ arg.kind = "item"
    /\ out = NoOut
    /\ out' = [fn |-> "make_id", r |-> make_id(arg.v)]
    /\ UNCHANGED <<upstream, configured, arg, disk, process, conc>>

CallExtract ==
    /\ arg.kind = "resp"
    /\ out = NoOut
    /\ out' = [fn |-> "extract_items_from_response",
               r |-> extract_items_from_response(arg.v)]
    /\ UNCHANGED <<upstream, configured, arg, disk, process, conc>>

CallSave ==
    /\ arg.kind = "ids"
    /\ out = NoOut
    /\ disk' = save_seen(arg.v)
    /\ out' = [fn |-> "save_seen"]
    /\ UNCHANGED <<upstream, configured, arg, process, conc>>

CallLoad ==
    /\ arg.kind = "ids"
    /\ out.fn \in {"none", "save_seen"}
    /\ out' = [fn |-> "load_seen", saved |-> out.fn = "save_seen",
               r |-> load_seen(disk)]
    /\ UNCHANGED <<upstream, configured, arg, disk, process, conc>>

FnNext ==
    \/ CallMakeId
    \/ CallExtract
    \/ CallSave
    \/ CallLoad

FnSpec == FnInit /\ [][FnNext]_vars

(***************************************************************************)
(* Two processes of main on the same seen.json, without any lock.  Each    *)
(* process has its own file object: open(SEEN_FILE, "w") truncates the     *)
(* file, and the array is written at the start of the file when the file   *)
(* object is flushed and closed.                                           *)
(***************************************************************************)
\* len of what json.dump(sorted(list(S)), f, indent=2) writes
RECURSIVE SumLen(_)
SumLen(S) ==
    IF S = {} THEN 0
    ELSE LET x == CHOOSE y \in S : TRUE
         IN  Len(x) + 4 + SumLen(S \ {x})
JsonLen(S) == IF S = {} THEN 2 ELSE 2 + SumLen(S) + 2 * (Cardinality(S) - 1) + 2
FileLen(f) == IF f.st = "ok" THEN JsonLen(Range(f.data)) ELSE 0

ConcInit ==
    /\ upstream \in Upstreams
    /\ configured \in BOOLEAN
    /\ disk \in InitialFiles
    /\ Fresh
    /\ arg = NoArg
    /\ out = NoOut
    /\ insts = [i \in Instances |-> IdleInst]
    /\ flen = FileLen(disk)
    /\ writers = <<>>
    /\ overlap = FALSE

InstRunning(i) == insts[i].pc \in {"fetch", "notify", "save", "writing"}
Finished(i) == insts[i].pc \in {"done", "raised"}

\* line 160: e-mail loop or straight to save_seen
AfterPages(newly) == IF newly = <<>> THEN "save" ELSE "notify"

\* lines 131-134 in process i
CStart(i) ==
    /\ insts[i].pc = "idle"
    /\ LET l == load_seen(disk)
       IN  insts' = [insts EXCEPT ![i] =
                IF l.ok
                THEN [@ EXCEPT !.pc = "fetch", !.seen = l.set, !.loaded = l.set]
                ELSE [@ EXCEPT !.pc = "raised", !.exc = l.exc]]
    /\ overlap' = (overlap \/ \E j \in Instances \ {i} : InstRunning(j))
    /\ UNCHANGED <<upstream, configured, arg, out, disk, process, flen, writers>>

\* lines 137-141 in process i
CFetchFail(i) ==
    /\ insts[i].pc = "fetch"
    /\ insts' = [insts EXCEPT ![i].pc = AfterPages(insts[i].newly_seen)]
    /\ UNCHANGED <<upstream, configured, arg, out, disk, process, flen, writers,
                   overlap>>

\* lines 136-155 in process i
CFetchPage(i) ==
    /\ insts[i].pc = "fetch"
    /\ LET me == insts[i]
           items == extract_items_from_response(fetch_page(me.page))
           r == ScanItems(items, me.seen, me.newly_seen)
       IN  insts' = [insts EXCEPT ![i] =
                IF items = <<>> THEN [me EXCEPT !.pc = AfterPages(me.newly_seen)]
                ELSE IF r.exc # ""
                THEN [me EXCEPT !.pc = "raised", !.exc = r.exc, !.seen = r.seen,
                                !.newly_seen = r.newly]
                ELSE IF me.page = MAX_PAGES
                THEN [me EXCEPT !.pc = AfterPages(r.newly), !.seen = r.seen,
                                !.newly_seen = r.newly]
                ELSE [me EXCEPT !.page = me.page + 1, !.seen = r.seen,
                                !.newly_seen = r.newly]]
    /\ UNCHANGED <<upstream, configured, arg, out, disk, process, flen, writers,
                   overlap>>

\* lines 161-169 in process i
CNotify(i) ==
    /\ insts[i].pc = "notify"
    /\ LET me == insts[i]
           uid == me.newly_seen[me.idx][1]
           it == me.newly_seen[me.idx][2]
           title == infer_title(it)
           link == infer_link(it)
       IN  IF ~link.ok
           THEN /\ insts' = [insts EXCEPT ![i] =
                                [me EXCEPT !.pc = "raised", !.exc = link.exc]]
                /\ UNCHANGED emails
           ELSE /\ \E o \in SendOutcomes :
                     emails' = Append(emails,
                                 [run |-> i, uid |-> uid, title |-> PyStr(title),
                                  outcome |-> o, durable |-> uid \in DiskIds(disk)])
                /\ insts' = [insts EXCEPT ![i] =
                                [me EXCEPT !.idx = me.idx + 1,
                                           !.pc = IF me.idx = Len(me.newly_seen)
                                                  THEN "save" ELSE "notify"]]
    /\ UNCHANGED <<upstream, configured, arg, out, disk, run, pc, exc, memory,
                   doneRuns, killedRuns, prev, persists, flen, writers, overlap>>

\* line 34 in process i: the file is truncated
CSaveOpen(i) ==
    /\ insts[i].pc = "save"
    /\ disk' = PartialFile
    /\ flen' = 0
    /\ insts' = [insts EXCEPT ![i].pc = "writing"]
    /\ UNCHANGED <<upstream, configured, arg, out, process, writers, overlap>>

\* line 35 in process i: the array goes to the start of the file; what
\* another process wrote beyond its end stays in the file
CSaveWrite(i) ==
    /\ insts[i].pc = "writing"
    /\ LET n == JsonLen(insts[i].seen)
       IN  IF n >= flen
           THEN disk' = save_seen(insts[i].seen) /\ flen' = n
           ELSE disk' = PartialFile /\ UNCHANGED flen
    /\ writers' = Append(writers, i)
    /\ insts' = [insts EXCEPT ![i].pc = "done"]
    /\ UNCHANGED <<upstream, configured, arg, out, process, overlap>>

ConcNext ==
    \E i \in Instances :
        \/ CStart(i)
        \/ CFetchFail(i)
        \/ CFetchPage(i)
        \/ CNotify(i)
        \/ CSaveOpen(i)
        \/ CSaveWrite(i)

ConcSpec == ConcInit /\ [][ConcNext]_vars

(***************************************************************************)
(* Properties                                                              *)
(***************************************************************************)
\* the e-mails of run r, as positions of the log
MailsOf(r) == {j \in DOMAIN emails : emails[j].run = r}

\* C1 (as amended): in every run seen.json is rewritten only at the end of
\* the run, after the notification of every newly discovered identifier has
\* been attempted; each notification is attempted while seen.json does not
\* yet hold its identifier.
C1_NotifyPrecedesPersist ==
    /\ \A j \in DOMAIN emails : ~emails[j].durable
    /\ pc \in {"fetch", "notify", "save"} => disk.st # "partial" /\ DiskIds(disk) = loaded
    /\ pc \in {"writing", "done"} => idx > Len(newly_seen)

\* C1 (as claimed): every notification is attempted after a persist that
\* covers its identifier.
C1_PersistPrecedesNotify ==
    \A j \in DOMAIN emails : emails[j].durable

C1_Witness ==
    /\ pc = "done"
    /\ \E j \in MailsOf(run) : ~emails[j].durable /\ emails[j].uid \in DiskIds(disk)

\* C2 (as amended): an identifier is notified at most once in a run, and an
\* identifier notified in a run that completed is never notified by a later
\* run; an identifier notified in a run that was killed (or raised) before
\* it saved is notified again by the next run that finds it.
C2_RepeatOnlyAfterUnsavedRun ==
    \A i, j \in DOMAIN emails :
        (i < j /\ emails[i].uid = emails[j].uid) =>
            /\ emails[i].run < emails[j].run
            /\ emails[i].run \notin doneRuns

\* C2 (as claimed): an identifier whose notification was sent in a killed
\* run is not sent again by a later run.
C2_AtMostOneNotification ==
    \A i, j \in DOMAIN emails :
        (/\ i < j
         /\ emails[i].uid = emails[j].uid
         /\ emails[i].run \in killedRuns) =>
            ~(emails[i].outcome = "sent" /\ emails[j].outcome = "sent")

C2_Witness ==
    /\ pc = "done"
    /\ \E i, j \in DOMAIN emails :
          /\ i < j
          /\ emails[i].uid = emails[j].uid
          /\ emails[i].outcome = "sent"
          /\ emails[j].outcome = "sent"
          /\ emails[i].run \in killedRuns
          /\ emails[j].run = run

\* the notifications of run r for an identifier an earlier run had notified
Redundant(r) ==
    {j \in MailsOf(r) :
        \E i \in DOMAIN emails : emails[i].run < r /\ emails[i].uid = emails[j].uid}

\* the identifiers notified before run r by runs that did not complete
Unsaved(r) ==
    {emails[i].uid : i \in {k \in DOMAIN emails :
                               emails[k].run < r /\ emails[k].run \notin doneRuns}}

\* C3 (as amended): a run repeats at most one notification for each
\* identifier that earlier killed runs had notified, so the number of
\* redundant notifications is bounded by the number of identifiers the
\* killed run had notified, not by one.
C3_RedundantBoundedByUnsaved ==
    \A r \in 1..run : Cardinality(Redundant(r)) <= Cardinality(Unsaved(r))

\* C3 (as claimed): a run that completes after a killed run repeats at most
\* one of the notifications of the killed run.
C3_AtMostOneRedundant ==
    \A r \in doneRuns :
        (r - 1) \in killedRuns =>
            Cardinality({j \in MailsOf(r) :
                \E i \in MailsOf(r - 1) : emails[i].uid = emails[j].uid}) <= 1

C3_Witness ==
    /\ pc = "done"
    /\ (run - 1) \in killedRuns
    /\ Cardinality(Redundant(run)) >= 2
    /\ Cardinality(Redundant(run)) = Cardinality(Unsaved(run))

\* C4: every identifier that seen.json holds and did not hold when the
\* latest run started has had its notification attempted in that run.
C4_NoneLostSilently ==
    pc # "idle" =>
        \A u \in DiskIds(disk) \ loaded :
            \E j \in MailsOf(run) : emails[j].uid = u

C4_Witness ==
    /\ pc = "done"
    /\ DiskIds(disk) \ loaded # {}

\* the identifiers of a page's records
ItemIds(items) == {make_id(items[j]).id : j \in 1..Len(items)}

\* the identifiers of all records of the pages this run has processed
ProcessedIds ==
    UNION {ItemIds(extract_items_from_response(fetch_page(p))) : p \in 1..OkPages}

\* the identifiers e-mailed in run r, in the order of the e-mails
RECURSIVE UidsOf(_, _)
UidsOf(log, r) ==
    IF log = <<>> THEN <<>>
    ELSE IF log[1].run = r THEN <<log[1].uid>> \o UidsOf(Tail(log), r)
    ELSE UidsOf(Tail(log), r)

InRun == pc \in {"fetch", "notify", "save", "writing", "done"}

\* C5: after a run that completed, a run that gets the same responses (no
\* page beyond those the first run processed) sends no notification and
\* leaves the seen-set, in memory and in seen.json, as the first run left it.
C5_Idempotent ==
    (InRun /\ prev.completed /\ OkPages <= prev.okPages) =>
        /\ MailsOf(run) = {}
        /\ newly_seen = <<>>
        /\ seen = prev.ids
        /\ pc = "done" => disk = JsonFile(prev.ids)

C5_Witness ==
    /\ pc = "done"
    /\ prev.completed
    /\ OkPages = prev.okPages
    /\ OkPages >= 2
    /\ MailsOf(run - 1) # {}

\* C6: the in-memory seen-set contains the loaded set at every step of a
\* run and never loses an identifier during the run, and when the run
\* completes seen.json holds exactly the loaded set plus the identifiers of
\* all records of the processed pages.
C6_SeenSetOnlyGrows ==
    /\ [](/\ InRun => loaded \subseteq seen
          /\ pc = "done" => DiskIds(disk) = loaded \cup ProcessedIds)
    /\ [][(run' = run /\ pc' # "killed") => seen \subseteq seen']_vars

C6_Witness ==
    /\ pc = "done"
    /\ loaded # {}
    /\ ProcessedIds \ loaded # {}
    /\ loaded \ ProcessedIds # {}

\* C7 (as amended): when persisting fails, the notification of every newly
\* discovered identifier of the run has already been attempted, and none of
\* these identifiers is in seen.json afterwards.
C7_PersistFailsAfterNotify ==
    (pc = "raised" /\ exc = "OSError") =>
        \A k \in 1..Len(newly_seen) :
            /\ \E j \in MailsOf(run) : emails[j].uid = newly_seen[k][1]
            /\ newly_seen[k][1] \notin DiskIds(disk)

\* C7 (as claimed): when persisting fails for a new identifier, no
\* notification has been attempted for it.
C7_NoNotifyWhenPersistFails ==
    (pc = "raised" /\ exc = "OSError") => MailsOf(run) = {}

C7_Witness ==
    /\ pc = "raised"
    /\ exc = "OSError"
    /\ \E j \in MailsOf(run) : emails[j].outcome = "sent"

\* C8: a delivery failure does not end the run and does not touch the
\* seen-set: every notified identifier stays in the in-memory set, the
\* e-mail loop goes through newly_seen in order whatever the outcomes, a
\* failed identifier is in seen.json when the run completes, and no later
\* run notifies it again.
C8_DeliveryFailureNonFatal ==
    /\ pc \notin {"idle", "killed"} =>
          /\ \A j \in MailsOf(run) : emails[j].uid \in seen
          /\ UidsOf(emails, run) = [k \in 1..(idx - 1) |-> newly_seen[k][1]]
    /\ pc = "done" =>
          /\ idx = Len(newly_seen) + 1
          /\ \A j \in MailsOf(run) : emails[j].uid \in DiskIds(disk)
    /\ \A i, j \in DOMAIN emails :
          (/\ emails[i].outcome = "failed"
           /\ emails[i].run \in doneRuns
           /\ emails[i].run < emails[j].run) => emails[i].uid # emails[j].uid

C8_Witness ==
    /\ pc = "done"
    /\ prev.completed
    /\ OkPages = prev.okPages
    /\ \E i, k \in MailsOf(run - 1) :
          /\ i < k
          /\ emails[i].outcome = "failed"
          /\ emails[k].outcome = "sent"

\* C9: after a failed request no further page is requested, and when the
\* run completes every new identifier of the earlier pages has been
\* notified and is in seen.json.
C9_FetchFailureKeepsProgress ==
    /\ failed => pc # "fetch" /\ fetched[Len(fetched)] = Len(fetched)
    /\ (failed /\ pc = "done") =>
          /\ ProcessedIds \ loaded \subseteq DiskIds(disk)
          /\ ProcessedIds \ loaded = {emails[j].uid : j \in MailsOf(run)}

C9_Witness ==
    /\ pc = "done"
    /\ failed
    /\ Len(fetched) >= 3
    /\ ProcessedIds \ loaded # {}

\* the pages requested so far are 1..k, k <= MAX_PAGES, and every page before
\* the one requested last gave records
PaginationInv ==
    /\ Len(fetched) <= MAX_PAGES
    /\ \A j \in 1..Len(fetched) : fetched[j] = j
    /\ \A j \in 1..(Len(fetched) - 1) :
          extract_items_from_response(fetch_page(j)) # <<>>
    /\ pc = "fetch" =>
          /\ page = Len(fetched) + 1
          /\ page <= MAX_PAGES
          /\ ~failed
          /\ \A j \in 1..Len(fetched) :
                extract_items_from_response(fetch_page(j)) # <<>>

\* C10: the pages requested in a run are 1, 2, ..., k in this order with
\* k <= MAX_PAGES, no page is requested after a page that failed or gave no
\* records, and the page loop of every run ends after finitely many
\* requests: the run goes on to the summary, unless the process is killed or
\* an exception raised outside the pagination logic (in make_id) ends it.
C10_Pagination ==
    /\ []PaginationInv
    /\ (pc = "fetch") ~> (summary # <<>> \/ pc \in {"raised", "killed"})

C10_Witness ==
    /\ pc = "done"
    /\ Len(fetched) = MAX_PAGES
    /\ ~failed
    /\ Len(upstream) > MAX_PAGES


\* the records of pages 1..n, page by page, in the order of each page
RECURSIVE AllItems(_)
AllItems(n) ==
    IF n = 0 THEN <<>>
    ELSE AllItems(n - 1) \o extract_items_from_response(fetch_page(n))

\* the identifiers of items that are not in known, each at its first place
RECURSIVE FirstAppearances(_, _)
FirstAppearances(items, known) ==
    IF items = <<>> THEN <<>>
    ELSE LET u == make_id(items[1]).id
         IN  IF u \in known THEN FirstAppearances(Tail(items), known)
             ELSE <<u>> \o FirstAppearances(Tail(items), known \cup {u})

\* C11: in a run that completes, the notifications attempted are, in this
\* order, one for each distinct identifier that was not in the loaded set,
\* at the place of its first appearance in the pages (page order, then the
\* order within the page); a repeated identifier is not notified again.
C11_OncePerNewIdInOrder ==
    pc = "done" =>
        UidsOf(emails, run) = FirstAppearances(AllItems(OkPages), loaded)

C11_Witness ==
    /\ pc = "done"
    /\ Len(UidsOf(emails, run)) >= 3
    /\ OkPages >= 2
    /\ Len(AllItems(OkPages)) >= Len(UidsOf(emails, run)) + 2
    /\ \E j, k \in 1..Len(AllItems(1)) : j < k /\ AllItems(1)[j] # AllItems(1)[k]

\* C12: make_id returns an identifier for every record and never fails: the
\* value of the first of id, _id, internship_id that is non-empty, as a
\* string, and otherwise the hash of "title|link" built from the first
\* non-empty title-like and link-like fields.
C12_MakeIdTotal ==
    (out.fn = "make_id" /\ IsDict(arg.v)) =>
        /\ out.r.ok
        /\ LET item == arg.v
               ids == {j \in 1..Len(IdKeys) : Truthy(Get(item, IdKeys[j]))}
               first == CHOOSE j \in ids : \A k \in ids : j <= k
               title == FirstTruthy(item, TitleKeys, JStr(""))
               link == FirstTruthy(item, IdLinkKeys, JStr(""))
           IN  IF ids # {}
               THEN out.r.id = PyStr(Get(item, IdKeys[first]))
               ELSE out.r.id = Sha1Hex(PyStr(title) \o "|" \o PyStr(link))


\* C13: extract_items_from_response follows the ordered fallback chain for
\* every response shape: the list under "data"; else the list under "data"
\* of the mapping under "data"; else the list under "internships"; else the
\* first list-valued entry in iteration order, or the empty list; a list
\* yields itself; null and every other shape yield the empty list.
C13_NormalizerChain ==
    out.fn = "extract_items_from_response" =>
        LET r == arg.v
            o == out.r
            dataList == IsDict(r) /\ HasKey(r, "data") /\ IsList(Item(r, "data"))
            inner == /\ IsDict(r) /\ HasKey(r, "data") /\ IsDict(Item(r, "data"))
                     /\ HasKey(Item(r, "data"), "data")
                     /\ IsList(Item(Item(r, "data"), "data"))
            named == /\ IsDict(r) /\ HasKey(r, "internships")
                     /\ IsList(Item(r, "internships"))
            lists == {j \in 1..Len(r.es) : IsList(r.es[j][2])}
            first == CHOOSE j \in lists : \A k \in lists : j <= k
        IN  /\ dataList => o = Item(r, "data").xs
            /\ (~dataList /\ inner) => o = Item(Item(r, "data"), "data").xs
            /\ (~dataList /\ ~inner /\ named) => o = Item(r, "internships").xs
            /\ (IsDict(r) /\ ~dataList /\ ~inner /\ ~named) =>
                   IF lists # {} THEN o = r.es[first][2].xs ELSE o = <<>>
            /\ IsList(r) => o = r.xs
            /\ (~IsDict(r) /\ ~IsList(r)) => o = <<>>

\* a mapping without "data" and "internships" and with two list-valued
\* entries has been normalised
C13_Witness ==
    /\ out.fn = "extract_items_from_response"
    /\ IsDict(arg.v)
    /\ ~HasKey(arg.v, "data")
    /\ ~HasKey(arg.v, "internships")
    /\ Cardinality({j \in 1..Len(arg.v.es) : IsList(arg.v.es[j][2])}) = 2
    /\ out.r = <<RecA2>>

\* C14: save_seen is atomic: whenever no save_seen call is in progress, also
\* after the process was killed during one, seen.json holds the complete
\* previous or the complete new set, so the next load_seen succeeds.
C14_PersistAtomic ==
    pc # "writing" =>
        /\ load_seen(disk).ok
        /\ run >= 1 => DiskIds(disk) \in {loaded, seen}

\* C15: load_seen after save_seen(S) returns exactly S, the stored array is
\* sorted and free of duplicates, and load_seen without a seen.json returns
\* the empty set without error.
C15_StoreRoundTrip ==
    out.fn = "load_seen" =>
        /\ out.saved =>
               /\ out.r = [ok |-> TRUE, set |-> arg.v]
               /\ disk.st = "ok"
               /\ Len(disk.data) = Cardinality(arg.v)
               /\ \A j, k \in 1..Len(disk.data) :
                      j < k => Rank(disk.data[j]) < Rank(disk.data[k])
        /\ (~out.saved /\ disk = NoFile) => out.r = [ok |-> TRUE, set |-> {}]

\* a set of three identifiers has replaced another seen.json and was read back
C15_Witness ==
    /\ out.fn = "load_seen"
    /\ out.saved
    /\ Cardinality(arg.v) = 3
    /\ "Z0" \notin arg.v
    /\ out.r.set = arg.v


\* C16: seen.json is rewritten exactly once in a completed run, at its end,
\* whatever the number of new identifiers; while the pages are scanned and
\* the e-mails are sent it still holds the set the run loaded.
C16_OneRewritePerRun ==
    /\ pc = "done" => (persists = 1 /\ DiskIds(disk) = seen)
    /\ pc \in {"fetch", "notify", "save"} =>
           /\ persists = 0
           /\ load_seen(disk) = [ok |-> TRUE, set |-> loaded]

\* C16 as stated: one rewrite per new identifier, right after its insertion
C16_RewritePerNewId ==
    /\ pc = "done" => persists = Len(newly_seen)
    /\ pc = "fetch" => DiskIds(disk) = seen

\* a run with two new identifiers has completed with one rewrite
C16_Witness ==
    /\ pc = "done"
    /\ Len(newly_seen) >= 2
    /\ persists = 1
    /\ DiskIds(disk) = seen

\* C17: when the page loop moves on to page p+1 the new records of the pages
\* up to p are marked as seen and queued, and nothing else has happened to
\* them: no e-mail of this run has been attempted and seen.json has not been
\* rewritten.
C17_OnlyMarkBeforeNextPage ==
    pc = "fetch" =>
        /\ ItemIds(AllItems(Len(fetched))) \subseteq seen
        /\ Range(UidsOf(emails, run)) = {}
        /\ \A j \in 1..Len(newly_seen) : newly_seen[j][1] \notin DiskIds(disk)

\* C17 as stated: mark, persist and notification attempt of the new records
\* of page p all occur before page p+1 is fetched
C17_PerItemBeforeNextPage ==
    (pc = "fetch" /\ page >= 2) =>
        \A j \in 1..Len(newly_seen) :
            /\ newly_seen[j][1] \in seen
            /\ newly_seen[j][1] \in DiskIds(disk)
            /\ newly_seen[j][1] \in Range(UidsOf(emails, run))

\* the loop is about to fetch page 2 with two new records of page 1 queued
C17_Witness ==
    /\ pc = "fetch"
    /\ page = 2
    /\ Len(newly_seen) >= 2
    /\ Range(UidsOf(emails, run)) = {}

\* C18: every run whose page loop ends, also by a failed request, reports the
\* number of records extracted from the processed pages and the number of
\* identifiers added to seen; the report precedes every e-mail and the
\* rewrite of seen.json of that run.
C18_SummaryBeforeNotifyAndPersist ==
    /\ pc \in {"notify", "save", "writing", "done"} =>
           summary = <<Len(AllItems(OkPages)), Cardinality(seen \ loaded)>>
    /\ (InRun /\ summary = <<>>) =>
           (Range(UidsOf(emails, run)) = {} /\ persists = 0)

\* C18 as stated: reporting the counts is the last action of the run; no
\* notification and no persist occurs after it
C18_SummaryIsLast ==
    [][(summary # <<>> /\ run' = run) => (emails' = emails /\ disk' = disk)]_vars

\* a run whose second request failed has reported its counts, then sent its
\* e-mails and rewritten seen.json
C18_Witness ==
    /\ pc = "done"
    /\ failed
    /\ summary # <<>>
    /\ summary[1] >= 2
    /\ summary[2] >= 1
    /\ Len(UidsOf(emails, run)) = summary[2]
    /\ \E j \in DOMAIN emails : emails[j].run = run /\ emails[j].outcome = "failed"

\* C19: without SMTP_USER, SMTP_PASS or EMAIL_TO, send_email_plain returns
\* without delivering and without raising; the new identifiers are still
\* in the set a completed run saves, and an identifier handled by a completed
\* run is never notified by a later run.
C19_UnconfiguredStillMarksSeen ==
    ~configured =>
        /\ \A j \in DOMAIN emails : emails[j].outcome = "skipped"
        /\ pc = "done" =>
               \A j \in 1..Len(newly_seen) : newly_seen[j][1] \in DiskIds(disk)
        /\ \A j, k \in DOMAIN emails :
               (emails[j].run < emails[k].run /\ emails[j].uid = emails[k].uid)
                   => emails[j].run \notin doneRuns

\* the second run has completed without any e-mail while seen.json holds
\* identifiers the first, completed run never delivered
C19_Witness ==
    /\ ~configured
    /\ run = 2
    /\ pc = "done"
    /\ total_fetched >= 2
    /\ 1 \in doneRuns
    /\ Len(UidsOf(emails, 1)) >= 2
    /\ UidsOf(emails, 2) = <<>>
    /\ Range(UidsOf(emails, 1)) \subseteq DiskIds(disk)


\* C20: after two processes on the same seen.json have both finished,
\* seen.json holds the in-memory set of the process that wrote last; when
\* the two runs did not overlap and both completed, no identifier was
\* notified by both and no identifier saved by one was removed by the other.
C20_LastWriterWins ==
    ((\A i \in Instances : Finished(i)) /\ writers # <<>>) =>
        /\ load_seen(disk) = [ok |-> TRUE, set |-> insts[writers[Len(writers)]].seen]
        /\ (~overlap /\ \A i \in Instances : insts[i].pc = "done") =>
               /\ \A i \in Instances : insts[i].seen \subseteq DiskIds(disk)
               /\ \A j, k \in DOMAIN emails :
                      emails[j].uid = emails[k].uid => emails[j].run = emails[k].run

====
